---- MODULE Spec2Model ----
(***************************************************************************)
(* Model of psycopg/green.c: the wait-callback registry, psyco_wait,       *)
(* psyco_exec_green and psyco_panic_cancel.                                *)
(*                                                                         *)
(* Several cooperative tasks (greenlets of one thread) share one           *)
(* connection.  A task runs without interruption until it invokes the wait *)
(* callback (green.c:130), the only point where control can pass to other  *)
(* tasks.  `cur` holds the task whose C code is running and is empty when  *)
(* every task is idle or suspended inside the callback.                    *)
(***************************************************************************)
EXTENDS Integers, Sequences, FiniteSets, TLC

NumTasks == 2

Tasks == 1..NumTasks

NULL == "NULL"
Py_None == "None"
Callbacks == {"cbA", "cbB"}
CbErrors == {"E1", "E2"}
Results == {"res1", "res2"}
WeakRef == "weakref"
Unset == "unset"

ASYNC_DONE == "ASYNC_DONE"
ASYNC_READ == "ASYNC_READ"
ASYNC_WRITE == "ASYNC_WRITE"

ErrSingleAsync == "a single async query can be executed on the same connection"
ErrNoCallback == "wait callback not available"
ErrNewRef == "MemoryError"
ErrWarning == "warning raised as error"
WarnErrbuf == "errbuf"
WarnClosing == "async cancel failed: closing the connection"

VARIABLES
    wait_callback,  \* the process-wide callback slot (green.c:34)
    last_set,       \* the argument of the latest psyco_set_wait_callback
    async_cursor,   \* conn->async_cursor
    async_status,   \* conn->async_status
    closed,         \* the connection has been closed by conn_close_locked
    cur,            \* {t} while task t's code is running, else {}
    pc,             \* pc[t]: position of task t in psyco_exec_green
    result,         \* result[t]: the local `result` of psyco_exec_green
    pyerr,          \* pyerr[t]: the pending Python exception seen by task t
    etype,          \* etype[t]: the exception saved by psyco_panic_cancel
    log             \* log[t]: the calls and writes made by t's current call

vars == <<wait_callback, last_set, async_cursor, async_status, closed, cur, pc,
          result, pyerr, etype, log>>

conn == <<async_cursor, async_status, closed>>

\* log[t] records, in program order, what t's current call did: the check
\* for a concurrent query ("reject"), the marker creation ("mark"), the
\* calls to pq_send_query ("send"), to the wait callback ("callback"), to
\* PQcancel ("cancel"), PyErr_WarnEx ("warn"), conn_close_locked ("close")
\* and pq_get_last_result ("fetch"), the return of psyco_wait ("wait"), the
\* writes of async_status ("status") and Py_CLEAR(async_cursor) ("clear")
Emit(t, evs) == log' = [log EXCEPT ![t] = @ \o evs]

Goto(t, label) == pc' = [pc EXCEPT ![t] = label]

Init ==
    /\ wait_callback = NULL
    /\ last_set = Unset
    /\ async_cursor = NULL
    /\ async_status = ASYNC_DONE
    /\ closed = FALSE
    /\ cur = {}
    /\ pc = [t \in Tasks |-> "idle"]
    /\ result = [t \in Tasks |-> NULL]
    /\ pyerr = [t \in Tasks |-> NULL]
    /\ etype = [t \in Tasks |-> NULL]
    /\ log = [t \in Tasks |-> <<>>]

(***************************************************************************)
(* The callback registry.                                                  *)
(***************************************************************************)
psyco_set_wait_callback(obj) ==
    /\ cur = {}
    /\ wait_callback' = IF obj # Py_None THEN obj ELSE NULL
    /\ last_set' = obj
    /\ UNCHANGED <<conn, cur, pc, result, pyerr, etype, log>>

\* ret = wait_callback; if (!ret) ret = Py_None
psyco_get_wait_callback == IF wait_callback = NULL THEN Py_None
                                                   ELSE wait_callback

\* the extension module is built with PSYCOPG_EXTENSIONS defined
PSYCOPG_EXTENSIONS == TRUE

\* mutant: the branch compiled when PSYCOPG_EXTENSIONS is not defined
psyco_green_disabled == FALSE

\* return (NULL != wait_callback) under PSYCOPG_EXTENSIONS, else 0
psyco_green == IF PSYCOPG_EXTENSIONS THEN NULL # wait_callback ELSE FALSE

(***************************************************************************)
(* psyco_exec_green                                                        *)
(***************************************************************************)
\* mutant: the failed check does not leave the function
psyco_exec_green_no_goto(t) ==
    /\ cur = {}
    /\ pc[t] = "idle"
    /\ cur' = {t}
    /\ result' = [result EXCEPT ![t] = NULL]
    /\ IF async_cursor # NULL
         THEN /\ pyerr' = [pyerr EXCEPT ![t] = ErrSingleAsync]
              /\ Emit(t, << <<"reject", ErrSingleAsync>> >>)
              /\ Goto(t, "newref")
         ELSE /\ Goto(t, "newref")
              /\ UNCHANGED <<pyerr, log>>
    /\ UNCHANGED <<wait_callback, last_set, conn, etype>>

\* entry and the check for a concurrently executing query
psyco_exec_green(t) ==
    /\ cur = {}
    /\ pc[t] = "idle"
    /\ cur' = {t}
    /\ result' = [result EXCEPT ![t] = NULL]
    /\ IF async_cursor # NULL
         THEN /\ pyerr' = [pyerr EXCEPT ![t] = ErrSingleAsync]
              /\ Emit(t, << <<"reject", ErrSingleAsync>> >>)
              /\ Goto(t, "end")
         ELSE /\ Goto(t, "newref")
              /\ UNCHANGED <<pyerr, log>>
    /\ UNCHANGED <<wait_callback, last_set, conn, etype>>

\* conn->async_cursor = PyWeakref_NewRef(conn, NULL)
exec_green_newref(t) ==
    /\ cur = {t}
    /\ pc[t] = "newref"
    /\ \E ok \in BOOLEAN :
         IF ok
           THEN /\ async_cursor' = WeakRef
                /\ Emit(t, << <<"mark", "ok">> >>)
                /\ Goto(t, "send")
                /\ UNCHANGED pyerr
           ELSE /\ async_cursor' = NULL
                /\ pyerr' = [pyerr EXCEPT ![t] = ErrNewRef]
                /\ Emit(t, << <<"mark", "fail">> >>)
                /\ Goto(t, "end")
    /\ UNCHANGED <<wait_callback, last_set, async_status, closed, cur, result, etype>>

\* mutant: a failed pq_send_query is handled like a failed psyco_wait
exec_green_send_panic_on_failure(t) ==
    /\ cur = {t}
    /\ pc[t] = "send"
    /\ \E ok \in BOOLEAN :
         IF ok
           THEN /\ async_status' = ASYNC_WRITE
                /\ Emit(t, << <<"send", "ok">>, <<"status", ASYNC_WRITE>> >>)
                /\ Goto(t, "wait")
           ELSE /\ Emit(t, << <<"send", "fail">> >>)
                /\ Goto(t, "panic")
                /\ UNCHANGED async_status
    /\ UNCHANGED <<wait_callback, last_set, async_cursor, closed, cur, result,
                   pyerr, etype>>

\* mutant: ASYNC_WRITE is set before the outcome of pq_send_query is tested
exec_green_send_status_first(t) ==
    /\ cur = {t}
    /\ pc[t] = "send"
    /\ async_status' = ASYNC_WRITE
    /\ \E ok \in BOOLEAN :
         IF ok
           THEN /\ Emit(t, << <<"send", "ok">>, <<"status", ASYNC_WRITE>> >>)
                /\ Goto(t, "wait")
           ELSE /\ Emit(t, << <<"send", "fail">>, <<"status", ASYNC_WRITE>> >>)
                /\ Goto(t, "end")
    /\ UNCHANGED <<wait_callback, last_set, async_cursor, closed, cur, result, pyerr,
                   etype>>

\* pq_send_query, then conn->async_status = ASYNC_WRITE
exec_green_send(t) ==
    /\ cur = {t}
    /\ pc[t] = "send"
    /\ \E ok \in BOOLEAN :
         IF ok
           THEN /\ async_status' = ASYNC_WRITE
                /\ Emit(t, << <<"send", "ok">>, <<"status", ASYNC_WRITE>> >>)
                /\ Goto(t, "wait")
           ELSE /\ Emit(t, << <<"send", "fail">> >>)
                /\ Goto(t, "end")
                /\ UNCHANGED async_status
    /\ UNCHANGED <<wait_callback, last_set, async_cursor, closed, cur, result, pyerr,
                   etype>>

(***************************************************************************)
(* psyco_wait, called at "wait" (green.c:180) and at "wait2" (green.c:226) *)
(***************************************************************************)
\* mutant: have_wait_callback returns NULL without setting the exception
psyco_wait_no_exception(t) ==
    /\ cur = {t}
    /\ pc[t] \in {"wait", "wait2"}
    /\ IF wait_callback = NULL
         THEN /\ Emit(t, << <<"wait", ErrNoCallback>> >>)
              /\ Goto(t, IF pc[t] = "wait" THEN "panic" ELSE "close")
              /\ UNCHANGED <<cur, pyerr>>
         ELSE /\ Emit(t, << <<"callback", "">> >>)
              /\ Goto(t, IF pc[t] = "wait" THEN "callback" ELSE "callback2")
              /\ cur' = {}
              /\ UNCHANGED pyerr
    /\ UNCHANGED <<wait_callback, last_set, conn, result, etype>>

\* have_wait_callback and the invocation of the callback
psyco_wait(t) ==
    /\ cur = {t}
    /\ pc[t] \in {"wait", "wait2"}
    /\ IF wait_callback = NULL
         THEN /\ pyerr' = [pyerr EXCEPT ![t] = ErrNoCallback]
              /\ Emit(t, << <<"wait", ErrNoCallback>> >>)
              /\ Goto(t, IF pc[t] = "wait" THEN "panic" ELSE "close")
              /\ UNCHANGED cur
         ELSE /\ Emit(t, << <<"callback", "">> >>)
              /\ Goto(t, IF pc[t] = "wait" THEN "callback" ELSE "callback2")
              /\ cur' = {}
              /\ UNCHANGED pyerr
    /\ UNCHANGED <<wait_callback, last_set, conn, result, etype>>

\* mutant: the callback's exception is replaced by psyco_wait's own error
psyco_wait_return_wrapped(t) ==
    /\ cur = {}
    /\ pc[t] \in {"callback", "callback2"}
    /\ cur' = {t}
    /\ \E rv \in {"ok"} \cup CbErrors :
         /\ Emit(t, << <<"wait", rv>> >>)
         /\ IF rv = "ok"
              THEN /\ Goto(t, IF pc[t] = "callback" THEN "get_result"
                                                    ELSE "discard")
                   /\ UNCHANGED pyerr
              ELSE /\ pyerr' = [pyerr EXCEPT ![t] = ErrNoCallback]
                   /\ Goto(t, IF pc[t] = "callback" THEN "panic" ELSE "close")
    /\ UNCHANGED <<wait_callback, last_set, conn, result, etype>>

\* mutant: the caller of the first psyco_wait ignores its return value
psyco_wait_return_unchecked(t) ==
    /\ cur = {}
    /\ pc[t] \in {"callback", "callback2"}
    /\ cur' = {t}
    /\ \E rv \in {"ok"} \cup CbErrors :
         /\ Emit(t, << <<"wait", rv>> >>)
         /\ IF rv = "ok"
              THEN /\ Goto(t, IF pc[t] = "callback" THEN "get_result"
                                                    ELSE "discard")
                   /\ UNCHANGED pyerr
              ELSE /\ pyerr' = [pyerr EXCEPT ![t] = rv]
                   /\ Goto(t, IF pc[t] = "callback" THEN "get_result"
                                                    ELSE "close")
    /\ UNCHANGED <<wait_callback, last_set, conn, result, etype>>

\* the callback returns (rv != NULL) or raises (rv == NULL)
psyco_wait_return(t) ==
    /\ cur = {}
    /\ pc[t] \in {"callback", "callback2"}
    /\ cur' = {t}
    /\ \E rv \in {"ok"} \cup CbErrors :
         /\ Emit(t, << <<"wait", rv>> >>)
         /\ IF rv = "ok"
              THEN /\ Goto(t, IF pc[t] = "callback" THEN "get_result"
                                                    ELSE "discard")
                   /\ UNCHANGED pyerr
              ELSE /\ pyerr' = [pyerr EXCEPT ![t] = rv]
                   /\ Goto(t, IF pc[t] = "callback" THEN "panic" ELSE "close")
    /\ UNCHANGED <<wait_callback, last_set, conn, result, etype>>

\* the poll implementation run by the callback while the task is suspended
conn_poll(t) ==
    /\ cur = {}
    /\ pc[t] \in {"callback", "callback2"}
    /\ async_status \in {ASYNC_WRITE, ASYNC_READ}
    /\ async_status' = IF async_status = ASYNC_WRITE THEN ASYNC_READ
                                                     ELSE ASYNC_DONE
    /\ UNCHANGED <<wait_callback, last_set, async_cursor, closed, cur, pc, result,
                   pyerr, etype, log>>

\* mutant: the fetched result is not stored in `result`
exec_green_get_result_dropped(t) ==
    /\ cur = {t}
    /\ pc[t] = "get_result"
    /\ \E r \in Results \cup {NULL} : Emit(t, << <<"fetch", r>> >>)
    /\ Goto(t, "end")
    /\ UNCHANGED <<wait_callback, last_set, conn, cur, result, pyerr, etype>>

\* result = pq_get_last_result(conn)
exec_green_get_result(t) ==
    /\ cur = {t}
    /\ pc[t] = "get_result"
    /\ \E r \in Results \cup {NULL} :
         /\ result' = [result EXCEPT ![t] = r]
         /\ Emit(t, << <<"fetch", r>> >>)
    /\ Goto(t, "end")
    /\ UNCHANGED <<wait_callback, last_set, conn, cur, pyerr, etype>>

\* mutant: the cleanup clears the marker but does not reset async_status
exec_green_end_no_status(t) ==
    /\ cur = {t}
    /\ pc[t] = "end"
    /\ async_cursor' = NULL
    /\ Emit(t, << <<"clear", "">> >>)
    /\ Goto(t, "returned")
    /\ UNCHANGED <<wait_callback, last_set, async_status, closed, cur, result,
                   pyerr, etype>>

\* mutant: the cleanup is skipped when the call has no result to return
exec_green_end_success_only(t) ==
    /\ cur = {t}
    /\ pc[t] = "end"
    /\ IF result[t] # NULL
         THEN /\ async_status' = ASYNC_DONE
              /\ async_cursor' = NULL
              /\ Emit(t, << <<"status", ASYNC_DONE>>, <<"clear", "">> >>)
         ELSE UNCHANGED <<async_status, async_cursor, log>>
    /\ Goto(t, "returned")
    /\ UNCHANGED <<wait_callback, last_set, closed, cur, result, pyerr, etype>>

\* end: async_status = ASYNC_DONE; Py_CLEAR(async_cursor)
exec_green_end(t) ==
    /\ cur = {t}
    /\ pc[t] = "end"
    /\ async_status' = ASYNC_DONE
    /\ async_cursor' = NULL
    /\ Emit(t, << <<"status", ASYNC_DONE>>, <<"clear", "">> >>)
    /\ Goto(t, "returned")
    /\ UNCHANGED <<wait_callback, last_set, closed, cur, result, pyerr, etype>>

\* return result: the caller takes the result and the pending error
exec_green_return(t) ==
    /\ cur = {t}
    /\ pc[t] = "returned"
    /\ cur' = {}
    /\ Goto(t, "idle")
    /\ result' = [result EXCEPT ![t] = NULL]
    /\ pyerr' = [pyerr EXCEPT ![t] = NULL]
    /\ etype' = [etype EXCEPT ![t] = NULL]
    /\ log' = [log EXCEPT ![t] = <<>>]
    /\ UNCHANGED <<wait_callback, last_set, conn>>

(***************************************************************************)
(* psyco_panic_cancel                                                      *)
(***************************************************************************)
\* mutant: the pending exception is not fetched
psyco_panic_cancel_no_fetch(t) ==
    /\ cur = {t}
    /\ pc[t] = "panic"
    /\ Goto(t, "cancel")
    /\ UNCHANGED <<wait_callback, last_set, conn, cur, result, pyerr, etype, log>>

\* PyErr_Fetch(&etype, &evalue, &etb)
psyco_panic_cancel(t) ==
    /\ cur = {t}
    /\ pc[t] = "panic"
    /\ etype' = [etype EXCEPT ![t] = pyerr[t]]
    /\ pyerr' = [pyerr EXCEPT ![t] = NULL]
    /\ Goto(t, "cancel")
    /\ UNCHANGED <<wait_callback, last_set, conn, cur, result, log>>

\* mutant: the return value of PQcancel is ignored
panic_cancel_cancel_unchecked(t) ==
    /\ cur = {t}
    /\ pc[t] = "cancel"
    /\ \E ok \in BOOLEAN :
         /\ Emit(t, << <<"cancel", IF ok THEN "ok" ELSE "fail">> >>)
         /\ Goto(t, "wait2")
    /\ UNCHANGED <<wait_callback, last_set, conn, cur, result, pyerr, etype>>

\* PQcancel; on failure PyErr_WarnEx(errbuf) and goto exit
panic_cancel_cancel(t) ==
    /\ cur = {t}
    /\ pc[t] = "cancel"
    /\ \E ok \in BOOLEAN :
         IF ok
           THEN /\ Emit(t, << <<"cancel", "ok">> >>)
                /\ Goto(t, "wait2")
                /\ UNCHANGED pyerr
           ELSE /\ Emit(t, << <<"cancel", "fail">>, <<"warn", WarnErrbuf>> >>)
                /\ \E e \in {pyerr[t], ErrWarning} :
                     pyerr' = [pyerr EXCEPT ![t] = e]
                /\ Goto(t, "exit")
    /\ UNCHANGED <<wait_callback, last_set, conn, cur, result, etype>>

\* mutant: the warning is issued but the connection is not closed
panic_cancel_close_warn_only(t) ==
    /\ cur = {t}
    /\ pc[t] = "close"
    /\ Emit(t, << <<"warn", WarnClosing>> >>)
    /\ \E e \in {pyerr[t], ErrWarning} : pyerr' = [pyerr EXCEPT ![t] = e]
    /\ Goto(t, "exit")
    /\ UNCHANGED <<wait_callback, last_set, conn, cur, result, etype>>

\* the second psyco_wait failed: warn and conn_close_locked
panic_cancel_close(t) ==
    /\ cur = {t}
    /\ pc[t] = "close"
    /\ closed' = TRUE
    /\ Emit(t, << <<"warn", WarnClosing>>, <<"close", "">> >>)
    /\ \E e \in {pyerr[t], ErrWarning} : pyerr' = [pyerr EXCEPT ![t] = e]
    /\ Goto(t, "exit")
    /\ UNCHANGED <<wait_callback, last_set, async_cursor, async_status, cur, result,
                   etype>>

\* mutant: the result of the cancelled query is kept as the call's result
panic_cancel_discard_kept(t) ==
    /\ cur = {t}
    /\ pc[t] = "discard"
    /\ \E r \in Results \cup {NULL} :
         /\ result' = [result EXCEPT ![t] = r]
         /\ Emit(t, << <<"fetch", r>> >>)
    /\ Goto(t, "exit")
    /\ UNCHANGED <<wait_callback, last_set, conn, cur, pyerr, etype>>

\* mutant: the result is read with a blocking loop that never completes
panic_cancel_discard_blocking(t) ==
    /\ cur = {t}
    /\ pc[t] = "discard"
    /\ UNCHANGED vars

\* the second psyco_wait succeeded: fetch the result and PQclear it
panic_cancel_discard(t) ==
    /\ cur = {t}
    /\ pc[t] = "discard"
    /\ \E r \in Results \cup {NULL} : Emit(t, << <<"fetch", r>> >>)
    /\ Goto(t, "exit")
    /\ UNCHANGED <<wait_callback, last_set, conn, cur, result, pyerr, etype>>

\* mutant: the saved exception is not restored
panic_cancel_exit_no_restore(t) ==
    /\ cur = {t}
    /\ pc[t] = "exit"
    /\ Goto(t, "end")
    /\ UNCHANGED <<wait_callback, last_set, conn, cur, result, pyerr, etype, log>>

\* exit: if (etype) PyErr_Restore(etype, evalue, etb)
panic_cancel_exit(t) ==
    /\ cur = {t}
    /\ pc[t] = "exit"
    /\ pyerr' = [pyerr EXCEPT ![t] = IF etype[t] # NULL THEN etype[t] ELSE @]
    /\ Goto(t, "end")
    /\ UNCHANGED <<wait_callback, last_set, conn, cur, result, etype, log>>

Next ==
    \/ \E obj \in Callbacks \cup {Py_None} : psyco_set_wait_callback(obj)
    \/ \E t \in Tasks : psyco_exec_green(t)
    \/ \E t \in Tasks : exec_green_newref(t)
    \/ \E t \in Tasks : exec_green_send(t)
    \/ \E t \in Tasks : psyco_wait(t)
    \/ \E t \in Tasks : psyco_wait_return(t)
    \/ \E t \in Tasks : conn_poll(t)
    \/ \E t \in Tasks : exec_green_get_result(t)
    \/ \E t \in Tasks : exec_green_end(t)
    \/ \E t \in Tasks : exec_green_return(t)
    \/ \E t \in Tasks : psyco_panic_cancel(t)
    \/ \E t \in Tasks : panic_cancel_cancel(t)
    \/ \E t \in Tasks : panic_cancel_close(t)
    \/ \E t \in Tasks : panic_cancel_discard(t)
    \/ \E t \in Tasks : panic_cancel_exit(t)

Spec == Init /\ [][Next]_vars

\* the steps task t takes while its C code is running
Run(t) ==
    \/ exec_green_newref(t)
    \/ exec_green_send(t)
    \/ psyco_wait(t)
    \/ exec_green_get_result(t)
    \/ exec_green_end(t)
    \/ exec_green_return(t)
    \/ psyco_panic_cancel(t)
    \/ panic_cancel_cancel(t)
    \/ panic_cancel_close(t)
    \/ panic_cancel_discard(t)
    \/ panic_cancel_exit(t)

\* running code keeps running (every wire-protocol call returns), and a
\* callback that is waiting returns once control is handed back to it
FairSpec ==
    /\ Spec
    /\ \A t \in Tasks : WF_vars(Run(t))
    /\ \A t \in Tasks : SF_vars(psyco_wait_return(t))

TypeOK ==
    /\ wait_callback \in Callbacks \cup {NULL}
    /\ last_set \in Callbacks \cup {Py_None, Unset}
    /\ async_cursor \in {NULL, WeakRef}
    /\ async_status \in {ASYNC_DONE, ASYNC_READ, ASYNC_WRITE}
    /\ closed \in BOOLEAN
    /\ cur \in {{}} \cup {{t} : t \in Tasks}
    /\ \A t \in Tasks : result[t] \in Results \cup {NULL}
(***************************************************************************)
(* Reading the log of a call                                               *)
(***************************************************************************)
Has(t, ev, val) == \E i \in 1..Len(log[t]) : log[t][i] = <<ev, val>>

HasEv(t, ev) == \E i \in 1..Len(log[t]) : log[t][i][1] = ev

Count(t, ev) == Cardinality({i \in 1..Len(log[t]) : log[t][i][1] = ev})

IsWait(x) == x[1] = "wait"

IsFetch(x) == x[1] = "fetch"

\* the outcomes of the psyco_wait calls of t's current call, in order
Waits(t) == SelectSeq(log[t], IsWait)

Fetches(t) == SelectSeq(log[t], IsFetch)

Returned(t) == pc[t] = "returned"

FirstWaitFailed(t) == Len(Waits(t)) >= 1 /\ Waits(t)[1][2] # "ok"

(***************************************************************************)
(* C1: whatever the outcomes of marker creation, pq_send_query, the first  *)
(* psyco_wait, PQcancel and the second psyco_wait, conn->async_cursor is   *)
(* NULL when psyco_exec_green returns.                                     *)
(***************************************************************************)
C1_MarkerClearedAtReturn ==
    \A t \in Tasks : Returned(t) => async_cursor = NULL

\* a call that went through send, failed wait, cancel and failed second wait
C1_Witness ==
    \E t \in Tasks :
        /\ Returned(t)
        /\ Has(t, "mark", "ok")
        /\ Has(t, "cancel", "ok")
        /\ HasEv(t, "close")
        /\ async_cursor = NULL

(***************************************************************************)
(* C2: a psyco_exec_green call that finds conn->async_cursor set returns   *)
(* the "single async query" error and leaves async_status and the existing *)
(* async_cursor exactly as they were before the call.                      *)
(***************************************************************************)
Rejected(t) == Len(log[t]) > 0 /\ log[t][1][1] = "reject"

C2_RejectedCallLeavesState ==
    [][\A t \in Tasks :
          (cur' = {t} /\ Len(log'[t]) > 0 /\ log'[t][1][1] = "reject")
              => /\ async_cursor' = async_cursor
                 /\ async_status' = async_status
                 /\ pyerr'[t] = ErrSingleAsync]_vars

(***************************************************************************)
(* C3: a call on an idle connection with no wait callback registered fails *)
(* with "wait callback not available" and pq_send_query is never invoked.  *)
(***************************************************************************)
\* t's call has returned, it was not rejected, and no callback was registered
\* when it started: a call that never invoked the callback never suspended,
\* so wait_callback is what it was at entry
NoCallbackCall(t) ==
    /\ Returned(t)
    /\ ~Rejected(t)
    /\ ~HasEv(t, "callback")
    /\ wait_callback = NULL

\* the claim as stated, for calls whose marker was created
C3_NoCallbackNothingSent ==
    \A t \in Tasks :
        (NoCallbackCall(t) /\ Has(t, "mark", "ok"))
            => /\ pyerr[t] = ErrNoCallback
               /\ ~HasEv(t, "send")

\* amended: pq_send_query is invoked exactly once before the callback is
\* looked up; when it succeeds the call fails with "wait callback not
\* available" and returns no result
C3_NoCallbackFailsAfterSend ==
    \A t \in Tasks :
        (NoCallbackCall(t) /\ Has(t, "mark", "ok"))
            => /\ Count(t, "send") = 1
               /\ Has(t, "send", "ok")
                    => /\ pyerr[t] = ErrNoCallback
                       /\ result[t] = NULL
                       /\ Waits(t)[1] = <<"wait", ErrNoCallback>>

C3_Witness ==
    \E t \in Tasks :
        /\ NoCallbackCall(t)
        /\ Has(t, "send", "ok")
        /\ pyerr[t] = ErrNoCallback

(***************************************************************************)
(* C4: while a call is suspended inside the wait callback, async_cursor    *)
(* stays non-NULL until that call itself ends, whatever other tasks do     *)
(* (so every further call during the suspension is rejected).              *)
(***************************************************************************)
Suspended(t) == pc[t] \in {"callback", "callback2"}

C4_MarkerHeldWhileSuspended ==
    \A t \in Tasks : Suspended(t) => async_cursor # NULL

(***************************************************************************)
(* C5: send ok, first psyco_wait fails, PQcancel ok, second psyco_wait ok: *)
(* the pending error at return is the error of the first psyco_wait and    *)
(* the call never calls conn_close_locked.                                 *)
(***************************************************************************)
CancelAcked(t) ==
    /\ Returned(t)
    /\ Has(t, "send", "ok")
    /\ Len(Waits(t)) = 2
    /\ Waits(t)[1][2] # "ok"
    /\ Has(t, "cancel", "ok")
    /\ Waits(t)[2][2] = "ok"

C5_OriginalErrorKeptConnOpen ==
    \A t \in Tasks :
        CancelAcked(t)
            => /\ pyerr[t] = Waits(t)[1][2]
               /\ pyerr[t] \in CbErrors
               /\ ~HasEv(t, "close")
               /\ ~Has(t, "warn", WarnClosing)

C5_Witness ==
    \E t \in Tasks :
        /\ CancelAcked(t)
        /\ pyerr[t] = "E1"
        /\ closed = FALSE

(***************************************************************************)
(* C6: send ok, first psyco_wait fails, PQcancel ok, second psyco_wait     *)
(* fails: at return the connection is closed, the closing warning has been *)
(* issued, and the pending error is the first psyco_wait's error, not the  *)
(* second one's.                                                           *)
(***************************************************************************)
CancelAckFailed(t) ==
    /\ Returned(t)
    /\ Has(t, "send", "ok")
    /\ Len(Waits(t)) = 2
    /\ Waits(t)[1][2] # "ok"
    /\ Has(t, "cancel", "ok")
    /\ Waits(t)[2][2] # "ok"

C6_ClosedWithOriginalError ==
    \A t \in Tasks :
        CancelAckFailed(t)
            => /\ closed = TRUE
               /\ Count(t, "close") = 1
               /\ Has(t, "warn", WarnClosing)
               /\ pyerr[t] = Waits(t)[1][2]

\* the two waits failed with different errors
C6_Witness ==
    \E t \in Tasks :
        /\ CancelAckFailed(t)
        /\ Waits(t)[1][2] = "E1"
        /\ Waits(t)[2][2] = "E2"
        /\ pyerr[t] = "E1"
        /\ closed = TRUE

(***************************************************************************)
(* C7: first psyco_wait fails and PQcancel fails: a warning is issued and  *)
(* recovery stops; no second psyco_wait, no conn_close_locked, no result   *)
(* fetched, and the pending error at return is the first wait's error.     *)
(***************************************************************************)
CancelNotSent(t) ==
    /\ Returned(t)
    /\ FirstWaitFailed(t)
    /\ Has(t, "cancel", "fail")

C7_CancelFailureStopsRecovery ==
    \A t \in Tasks :
        CancelNotSent(t)
            => /\ Has(t, "warn", WarnErrbuf)
               /\ Len(Waits(t)) = 1
               /\ Count(t, "callback") <= 1
               /\ ~HasEv(t, "close")
               /\ ~HasEv(t, "fetch")
               /\ result[t] = NULL
               /\ pyerr[t] = Waits(t)[1][2]

C7_Witness ==
    \E t \in Tasks :
        /\ CancelNotSent(t)
        /\ Count(t, "callback") = 1
        /\ pyerr[t] = "E2"

(***************************************************************************)
(* C8: pq_send_query fails: the call returns no result and no Python       *)
(* error of its own, never invokes the wait callback, PQcancel or          *)
(* conn_close_locked, never sets ASYNC_WRITE, and returns with             *)
(* async_cursor cleared.                                                   *)
(***************************************************************************)
SendFailed(t) == Returned(t) /\ Has(t, "send", "fail")

C8_SendFailureIsTerminal ==
    \A t \in Tasks :
        SendFailed(t)
            => /\ result[t] = NULL
               /\ pyerr[t] = NULL
               /\ ~HasEv(t, "callback")
               /\ ~HasEv(t, "wait")
               /\ ~HasEv(t, "cancel")
               /\ ~HasEv(t, "close")
               /\ ~HasEv(t, "fetch")
               /\ ~Has(t, "status", ASYNC_WRITE)
               /\ async_cursor = NULL

C8_Witness ==
    \E t \in Tasks :
        /\ SendFailed(t)
        /\ wait_callback # NULL
        /\ closed = FALSE

(***************************************************************************)
(* C9: callback registered, connection not busy, send ok, psyco_wait ok:   *)
(* the call returns exactly what pq_get_last_result produced, makes no     *)
(* cancel or close call, invokes the callback once, and async_status is    *)
(* ASYNC_DONE at return.                                                   *)
(***************************************************************************)
Succeeded(t) ==
    /\ Returned(t)
    /\ Has(t, "send", "ok")
    /\ Len(Waits(t)) >= 1
    /\ Waits(t)[1][2] = "ok"

C9_ReturnsFetchedResult ==
    \A t \in Tasks :
        Succeeded(t)
            => /\ Len(Fetches(t)) = 1
               /\ result[t] = Fetches(t)[1][2]
               /\ pyerr[t] = NULL
               /\ ~HasEv(t, "cancel")
               /\ ~HasEv(t, "close")
               /\ Count(t, "callback") = 1
               /\ Len(Waits(t)) = 1
               /\ async_status = ASYNC_DONE

C9_Witness ==
    \E t \in Tasks :
        /\ Succeeded(t)
        /\ result[t] = "res2"
        /\ async_status = ASYNC_DONE

(***************************************************************************)
(* C10: within one call, the marker is set before pq_send_query, the send  *)
(* precedes every psyco_wait, every pq_get_last_result follows a           *)
(* psyco_wait that succeeded, and the marker is cleared after every send,  *)
(* wait, cancel, close and fetch of the call.                              *)
(***************************************************************************)
Before(t, ev, val, i) == \E j \in 1..(i - 1) : log[t][j] = <<ev, val>>

\* the most recent psyco_wait before position i succeeded
LastWaitOk(t, i) ==
    \E j \in 1..(i - 1) :
        /\ log[t][j] = <<"wait", "ok">>
        /\ \A k \in (j + 1)..(i - 1) : log[t][k][1] # "wait"

C10_EventOrder ==
    \A t \in Tasks : \A i \in 1..Len(log[t]) :
        LET ev == log[t][i][1] IN
        /\ ev = "send" => Before(t, "mark", "ok", i)
        /\ ev \in {"wait", "callback"} => Before(t, "send", "ok", i)
        /\ ev \in {"cancel", "close"} => Before(t, "send", "ok", i)
        /\ ev = "fetch" => LastWaitOk(t, i)
        /\ ev = "clear" => i = Len(log[t])
        /\ (Returned(t) /\ i = Len(log[t])) => ev = "clear"

C10_Witness ==
    \E t \in Tasks :
        /\ Returned(t)
        /\ Has(t, "mark", "ok")
        /\ Count(t, "wait") = 2
        /\ Count(t, "fetch") = 1
        /\ log[t][Len(log[t])][1] = "clear"
WaitsIn(t, from, to) ==
    Cardinality({k \in from..to : log[t][k][1] = "wait"})

C11_CancelOnceAfterFailedWait ==
    \A t \in Tasks :
        /\ Count(t, "cancel") <= 1
        /\ Count(t, "callback") <= 2
        /\ Count(t, "wait") <= 2
        /\ \A i \in 1..Len(log[t]) :
             log[t][i][1] = "cancel"
                 => /\ WaitsIn(t, 1, i - 1) = 1
                    /\ FirstWaitFailed(t)
                    /\ WaitsIn(t, i + 1, Len(log[t])) <= 1

C11_Witness ==
    \E t \in Tasks :
        /\ Returned(t)
        /\ Count(t, "cancel") = 1
        /\ Count(t, "callback") = 2
        /\ Count(t, "wait") = 2

(***************************************************************************)
(* C12: a psyco_wait failure for lack of a callback is terminal: once      *)
(* psyco_wait has failed with "wait callback not available", psyco_wait is *)
(* not called again during that psyco_exec_green call.                     *)
(***************************************************************************)
\* the claim as stated
C12_NoCallbackNeverRetried ==
    \A t \in Tasks : \A i \in 1..Len(Waits(t)) :
        Waits(t)[i][2] = ErrNoCallback => i = Len(Waits(t))

\* amended: the failure enters psyco_panic_cancel like any other; the
\* callback is never invoked, psyco_wait is called once more exactly when
\* PQcancel succeeded, fails the same way, and the connection is closed;
\* the error at return is still "wait callback not available"
C12_NoCallbackRecoveredOnce ==
    \A t \in Tasks :
        (Len(Waits(t)) >= 1 /\ Waits(t)[1][2] = ErrNoCallback)
            => /\ ~HasEv(t, "callback")
               /\ Len(Waits(t)) <= 2
               /\ Len(Waits(t)) = 2
                    => /\ Has(t, "cancel", "ok")
                       /\ Waits(t)[2][2] = ErrNoCallback
               /\ Returned(t)
                    => /\ pyerr[t] = ErrNoCallback
                       /\ result[t] = NULL
                       /\ Has(t, "cancel", "ok")
                            => /\ Len(Waits(t)) = 2
                               /\ HasEv(t, "close")
                               /\ closed

C12_Witness ==
    \E t \in Tasks :
        /\ Returned(t)
        /\ Waits(t) = << <<"wait", ErrNoCallback>>, <<"wait", ErrNoCallback>> >>
        /\ pyerr[t] = ErrNoCallback
        /\ closed

(***************************************************************************)
(* C13: async_status is ASYNC_DONE whenever psyco_exec_green returns, on   *)
(* error paths too, so a NULL async_cursor implies ASYNC_DONE.             *)
(***************************************************************************)
C13_DoneAtReturn ==
    /\ \A t \in Tasks : Returned(t) => async_status = ASYNC_DONE
    /\ async_cursor = NULL => async_status = ASYNC_DONE

\* an error path that had set ASYNC_WRITE
C13_Witness ==
    \E t \in Tasks :
        /\ Returned(t)
        /\ Has(t, "status", ASYNC_WRITE)
        /\ FirstWaitFailed(t)
        /\ result[t] = NULL
        /\ async_status = ASYNC_DONE
        /\ async_cursor = NULL

(***************************************************************************)
(* C15: a rejected call (async_cursor already set) calls neither           *)
(* pq_send_query, nor the wait callback, nor PQcancel, nor                 *)
(* conn_close_locked, nor pq_get_last_result.                              *)
(***************************************************************************)
C15_RejectedCallDoesNothing ==
    \A t \in Tasks :
        Rejected(t)
            => /\ ~HasEv(t, "mark")
               /\ ~HasEv(t, "send")
               /\ ~HasEv(t, "callback")
               /\ ~HasEv(t, "wait")
               /\ ~HasEv(t, "cancel")
               /\ ~HasEv(t, "close")
               /\ ~HasEv(t, "fetch")
               /\ result[t] = NULL

C15_Witness ==
    \E t \in Tasks :
        /\ Returned(t)
        /\ Rejected(t)
        /\ pyerr[t] = ErrSingleAsync
        /\ \E u \in Tasks : Suspended(u)
(***************************************************************************)
(* C16: if every invocation of the wait callback returns and every         *)
(* wire-protocol call returns, every psyco_exec_green call returns.        *)
(***************************************************************************)
InCall(t) == pc[t] \notin {"idle", "returned"}

C16_CallReturns ==
    \A t \in Tasks : InCall(t) ~> Returned(t)

\* a call that went through both waits has returned
C16_Witness ==
    \E t \in Tasks :
        /\ Returned(t)
        /\ Count(t, "callback") = 2
        /\ Has(t, "clear", "")
(***************************************************************************)
(* C17: psyco_wait has three outcomes: with no callback registered it      *)
(* fails with "wait callback not available" without invoking anything;     *)
(* when the callback fails it fails with the callback's own exception      *)
(* pending; when the callback returns it succeeds and sets no exception.   *)
(***************************************************************************)
\* t's code has just got control back from psyco_wait
AfterWait(t) ==
    /\ cur = {t}
    /\ pc[t] \in {"panic", "close", "get_result", "discard"}

C17_WaitOutcomes ==
    \A t \in Tasks :
        AfterWait(t) =>
            LET n == Len(log[t])
                rv == log[t][n][2]
                invoked == log[t][n - 1][1] = "callback"
            IN  /\ log[t][n][1] = "wait"
                /\ \/ /\ rv = ErrNoCallback
                      /\ wait_callback = NULL
                      /\ ~invoked
                      /\ pyerr[t] = ErrNoCallback
                      /\ pc[t] \in {"panic", "close"}
                   \/ /\ rv \in CbErrors
                      /\ invoked
                      /\ pyerr[t] = rv
                      /\ pc[t] \in {"panic", "close"}
                   \/ /\ rv = "ok"
                      /\ invoked
                      /\ pyerr[t] = NULL
                      /\ pc[t] \in {"get_result", "discard"}

\* the second psyco_wait has failed with the callback's exception
C17_Witness ==
    \E t \in Tasks :
        /\ AfterWait(t)
        /\ pc[t] = "close"
        /\ pyerr[t] = "E2"
        /\ etype[t] = "E1"

(***************************************************************************)
(* C18: conn_close_locked is called in a psyco_exec_green call only when,  *)
(* in that call, the first psyco_wait failed, PQcancel succeeded and the   *)
(* second psyco_wait failed, and then once; a successful call, a send      *)
(* failure, a rejected call and a PQcancel failure never close.            *)
(***************************************************************************)
CloseDue(t) ==
    /\ cur = {t}
    /\ pc[t] = "close"
    /\ Has(t, "send", "ok")
    /\ Has(t, "cancel", "ok")
    /\ Len(Waits(t)) = 2
    /\ Waits(t)[1][2] # "ok"
    /\ Waits(t)[2][2] # "ok"
    /\ ~HasEv(t, "close")

C18_CloseOnlyAfterFailedAck ==
    [][/\ (closed' # closed) => \E t \in Tasks : CloseDue(t)
       /\ \A t \in Tasks :
            HasEv(t, "close")' =>
                /\ HasEv(t, "close") \/ CloseDue(t)
                /\ Count(t, "close")' = 1
                /\ ~Rejected(t)'
                /\ ~Has(t, "send", "fail")'
                /\ ~Has(t, "cancel", "fail")'
                /\ ~Has(t, "wait", "ok")']_vars

C18_Witness ==
    \E t \in Tasks :
        /\ Returned(t)
        /\ Count(t, "close") = 1
        /\ closed

(***************************************************************************)
(* C19: psyco_exec_green returns a non-NULL result only when the first     *)
(* psyco_wait succeeded; once psyco_panic_cancel has run the result is     *)
(* NULL, and the result fetched after a successful second wait is          *)
(* discarded, never returned.                                              *)
(***************************************************************************)
C19_ResultOnlyOnSuccess ==
    \A t \in Tasks :
        /\ result[t] # NULL
             => /\ Len(Waits(t)) = 1
                /\ Waits(t)[1][2] = "ok"
                /\ ~HasEv(t, "cancel")
                /\ Fetches(t) = << <<"fetch", result[t]>> >>
        /\ FirstWaitFailed(t) => result[t] = NULL

\* the second wait succeeded and a non-NULL result was fetched and dropped
C19_Witness ==
    \E t \in Tasks :
        /\ CancelAcked(t)
        /\ Fetches(t) = << <<"fetch", "res1">> >>
        /\ result[t] = NULL

(***************************************************************************)
(* C20: every failing return of psyco_wait leaves an exception pending, so *)
(* psyco_panic_cancel always has one to save (its "called without          *)
(* exception set" branch is not reached from psyco_exec_green) and the     *)
(* exception of the second psyco_wait is never the one left at return.     *)
(***************************************************************************)
InPanicCancel(t) ==
    pc[t] \in {"cancel", "wait2", "callback2", "close", "discard", "exit"}

C20_ExceptionAlwaysSaved ==
    \A t \in Tasks :
        /\ pc[t] \in {"panic", "close"} => pyerr[t] # NULL
        /\ InPanicCancel(t)
             => /\ etype[t] # NULL
                /\ etype[t] = Waits(t)[1][2]
        /\ (Returned(t) /\ Len(Waits(t)) = 2)
             => /\ etype[t] # NULL
                /\ pyerr[t] = etype[t]

C20_Witness ==
    \E t \in Tasks :
        /\ Returned(t)
        /\ Waits(t) = << <<"wait", "E2">>, <<"wait", "E1">> >>
        /\ etype[t] = "E2"
        /\ pyerr[t] = "E2"
====
